---- MODULE Spec2Model ----
(***************************************************************************)
(* The project-history store of src/lib/project-history.ts: a list of      *)
(* recently used project paths kept under one localStorage key.            *)
(*                                                                         *)
(* The state is the content of that key, the wall clock Date.now() reads,  *)
(* and whether the storage currently throws on reads or on writes.  Every  *)
(* exported function is one action, translated statement by statement;     *)
(* exceptions are modelled as values ([threw |-> ...]) so that each        *)
(* try/catch of the source is visible in the model.                        *)
(*                                                                         *)
(* call holds the calls of save and remove that are between their read and *)
(* their write of the storage (specification SpecCalls).  isOpen, filter   *)
(* and historyShown are the state of the ProjectPathSelector component of  *)
(* the second source file (historyShown is its state variable history: the *)
(* name history is taken by the local variable of the store's functions),  *)
(* and effectPending tells that the effect on isOpen is still to run       *)
(* (specification SpecSelector).  timestamp and dateText are the argument  *)
(* and the result of the component's formatDate (specification             *)
(* SpecFormat).                                                            *)
(***************************************************************************)
EXTENDS Integers, Sequences, FiniteSets, TLC

VARIABLES stored, now, readFails, writeFails, lastOp, nextFresh, extra,
          call, isOpen, historyShown, filter, effectPending,
          timestamp, dateText

callVars == <<call>>

selectorVars == <<isOpen, historyShown, filter, effectPending>>

formatVars == <<timestamp, dateText>>

vars == <<stored, now, readFails, writeFails, lastOp, nextFresh, extra,
          callVars, selectorVars, formatVars>>

(***************************************************************************)
(* Program constant and the bounds of the model.                           *)
(***************************************************************************)
MAX_HISTORY_ITEMS == 10

\* The thresholds of formatDate, in milliseconds.
Minute == 60000
Hour == 3600000
Day == 86400000
Week == 604800000

\* Date.now() reads a value in 0..MaxTime.
MaxTime == 1
\* Spec: the callers use NumPaths distinct paths, and a run has at most
\* MaxExtra steps other than the first save of a path.
NumPaths == 3
MaxExtra == 4
\* SpecFull: the same with enough paths to fill the history and go beyond.
NumFullPaths == 11
MaxFullExtra == 1
\* SpecFault: the paths of Spec, and at most MaxFaultExtra such steps, the
\* changes of the storage's behaviour and content included.
MaxFaultExtra == 3
\* SpecCalls: NumCallers event handlers call the store, each call of save and
\* remove in two steps, with the paths of Spec and at most MaxCallExtra steps
\* other than the first save of a path and the writes.
NumCallers == 2
MaxCallExtra == 3
\* SpecNames: at most MaxNameExtra steps.
MaxNameExtra == 3
\* SpecFormat: formatDate gets a timestamp in 0..MaxStamp.
MaxStamp == 1
\* SpecSelector: the paths of Spec, and at most MaxSelectorExtra steps other
\* than the first save of a path and the run of the effect.
MaxSelectorExtra == 4

Times == 0..MaxTime

(***************************************************************************)
(* Paths are strings, modelled as sequences of characters.  PathOf(i) is   *)
(* the i-th of the distinct paths the callers use.                         *)
(***************************************************************************)
Letters == <<"a", "b", "c", "d", "e", "f", "g", "h", "i", "j", "k", "l", "m",
             "n", "o", "p", "q", "r", "s", "t", "u", "v", "w", "x", "y", "z">>

PathOf(i) ==
  CASE i = 1 -> <<"/">>
    [] i > 1 /\ i % 2 = 0 -> <<"/", Letters[i], "/">>
    [] OTHER -> <<"/", "w", "/", Letters[i]>>

BlankPaths == {<<>>, <<" ", "\t">>}

\* C:\w\d, a path as Windows writes it (formatPath, line 100 of the
\* component, expects such paths in the history).
WindowsPath == <<"C", ":", "\\", "w", "\\", "d">>

\* The paths of SpecNames: the root, paths with and without a trailing
\* separator, a relative name, doubled separators, a Windows path.
NamePaths ==
  {PathOf(1), PathOf(2), PathOf(3), <<"d">>, <<"/", "/", "e", "/", "/">>,
   WindowsPath}

UNKNOWN_PROJECT == <<"U", "n", "k", "n", "o", "w", "n", " ", "P", "r", "o", "j", "e", "c", "t">>

(***************************************************************************)
(* String helpers of the JavaScript runtime.                               *)
(***************************************************************************)
\* String.prototype.split('/'): the segments between separators.
RECURSIVE SplitSlash(_, _)
SplitSlash(s, cur) ==
  IF s = <<>> THEN <<cur>>
  ELSE IF Head(s) = "/" THEN <<cur>> \o SplitSlash(Tail(s), <<>>)
  ELSE SplitSlash(Tail(s), Append(cur, Head(s)))

\* Array.prototype.filter(Boolean) on strings: the empty string is falsy.
FilterNonEmpty(parts) == SelectSeq(parts, LAMBDA x : x # <<>>)

IsWhitespace(c) == c \in {" ", "\t", "\n"}

\* path.trim() === ''
TrimIsEmpty(s) == \A i \in 1..Len(s) : IsWhitespace(s[i])

getProjectName(path) ==
  LET parts == FilterNonEmpty(SplitSlash(path, <<>>))
  IN  IF Len(parts) > 0 /\ parts[Len(parts)] # <<>>
      THEN parts[Len(parts)]
      ELSE UNKNOWN_PROJECT

(***************************************************************************)
(* The value under STORAGE_KEY.  kind is what the stored string is:        *)
(*   "absent"    no value (getItem returns null)                           *)
(*   "empty"     the empty string                                          *)
(*   "malformed" a string JSON.parse rejects                               *)
(*   "nonarray"  valid JSON that is no array (items.sort is no function)   *)
(*   "array"     JSON.stringify of the array items                         *)
(***************************************************************************)
Absent == [kind |-> "absent", items |-> <<>>]
Stringified(items) == [kind |-> "array", items |-> items]

\* localStorage.getItem(STORAGE_KEY)
getItem(st, rf) ==
  IF rf THEN [threw |-> TRUE, value |-> Absent]
        ELSE [threw |-> FALSE, value |-> st]

\* localStorage.setItem(STORAGE_KEY, v): the new content, or a throw that
\* leaves the content as it was.
setItem(st, wf, v) ==
  IF wf THEN [threw |-> TRUE, stored |-> st]
        ELSE [threw |-> FALSE, stored |-> v]

\* localStorage.removeItem(STORAGE_KEY)
removeItem(st, wf) ==
  IF wf THEN [threw |-> TRUE, stored |-> st]
        ELSE [threw |-> FALSE, stored |-> Absent]

\* JSON.parse(stored) followed by the call of items.sort: throws on a string
\* that is no JSON and on a value that has no sort method.
JSONparse(v) ==
  IF v.kind = "array" THEN [threw |-> FALSE, items |-> v.items]
                      ELSE [threw |-> TRUE, items |-> <<>>]

(***************************************************************************)
(* items.sort((a, b) => b.lastUsed - a.lastUsed): a stable sort, most      *)
(* recent first.                                                           *)
(***************************************************************************)
\* Mutant: the comparator with its operands swapped (oldest first).
CompareAscending(a, b) == a.lastUsed - b.lastUsed

\* The comparator: negative when a goes before b.
CompareLastUsed(a, b) == b.lastUsed - a.lastUsed

\* Insertion of x into a sorted array, behind the elements it does not go
\* before: elements that compare equal keep their order (the sort is stable).
RECURSIVE InsertSorted(_, _)
InsertSorted(x, s) ==
  IF s = <<>> THEN <<x>>
  ELSE IF CompareLastUsed(x, Head(s)) < 0 THEN <<x>> \o s
  ELSE <<Head(s)>> \o InsertSorted(x, Tail(s))

\* The elements of items inserted one by one, from the first, into sorted.
\* (acc ranges over a one-element set: the array after the insertion.)
RECURSIVE SortFrom(_, _)
SortFrom(items, sorted) ==
  IF items = <<>> THEN sorted
  ELSE CHOOSE result \in {SortFrom(Tail(items), acc) :
                            acc \in {InsertSorted(Head(items), sorted)}} : TRUE

\* Mutant: no sort, the array as it was parsed.
SortNone(items) == items

SortByLastUsed(items) == SortFrom(items, <<>>)

(***************************************************************************)
(* loadProjectHistory                                                      *)
(***************************************************************************)
\* The try block: its return value, or that it threw.
LoadTry(st, rf) ==
  LET got == getItem(st, rf)
  IN  IF got.threw THEN [threw |-> TRUE, value |-> <<>>]
      ELSE IF got.value.kind \in {"absent", "empty"} THEN [threw |-> FALSE, value |-> <<>>]
      ELSE LET parsed == JSONparse(got.value)
           IN  IF parsed.threw THEN [threw |-> TRUE, value |-> <<>>]
               ELSE [threw |-> FALSE, value |-> SortByLastUsed(parsed.items)]

\* Mutant: no catch, the throw of the try block reaches the caller.
LoadNoCatch(st, rf) ==
  LET body == LoadTry(st, rf)
  IN  [raised |-> body.threw, value |-> body.value]

loadProjectHistory(st, rf) ==
  LET body == LoadTry(st, rf)
  IN  IF body.threw THEN [raised |-> FALSE, value |-> <<>>]
                    ELSE [raised |-> FALSE, value |-> body.value]

(***************************************************************************)
(* saveProjectToHistory, removeProjectFromHistory, clearProjectHistory:    *)
(* each yields the content of the key afterwards and what the call did.    *)
(***************************************************************************)
\* Mutant: the filter keeps every entry.
WithoutNothing(history, path) == history

Without(history, path) == SelectSeq(history, LAMBDA item : item.path # path)

\* Mutant: push instead of unshift.
UnshiftLast(history, item) == Append(history, item)

Unshift(history, item) == <<item>> \o history

\* Mutant: one entry too few is kept.
SliceShort(history, n) ==
  SubSeq(history, 1, IF Len(history) < n - 1 THEN Len(history) ELSE n - 1)

\* Mutant: no truncation.
SliceAll(history, n) == history

Slice(history, n) == SubSeq(history, 1, IF Len(history) < n THEN Len(history) ELSE n)

\* The try blocks: the content of the key afterwards, whether the block threw,
\* and whether it read and wrote the storage.
SaveTry(st, rf, wf, t, path) ==
  LET loaded   == loadProjectHistory(st, rf)
      filtered == Without(loaded.value, path)
      added    == Unshift(filtered, [path |-> path, lastUsed |-> t,
                                     name |-> getProjectName(path)])
      kept     == Slice(added, MAX_HISTORY_ITEMS)
      put      == setItem(st, wf, Stringified(kept))
  IN  IF loaded.raised
      THEN [stored |-> st, threw |-> TRUE, read |-> TRUE, wrote |-> FALSE]
      ELSE [stored |-> put.stored, threw |-> put.threw, read |-> TRUE,
            wrote |-> ~put.threw]

\* Mutant: the guard without its trim() test.
SaveNoTrim(st, rf, wf, t, path) ==
  IF path = <<>>
  THEN [stored |-> st, raised |-> FALSE, read |-> FALSE, wrote |-> FALSE]
  ELSE LET body == SaveTry(st, rf, wf, t, path)
       IN  [stored |-> body.stored, raised |-> FALSE, read |-> body.read,
            wrote |-> body.wrote]

saveProjectToHistory(st, rf, wf, t, path) ==
  IF path = <<>> \/ TrimIsEmpty(path)
  THEN [stored |-> st, raised |-> FALSE, read |-> FALSE, wrote |-> FALSE]
  ELSE LET body == SaveTry(st, rf, wf, t, path)
       IN  [stored |-> body.stored, raised |-> FALSE, read |-> body.read,
            wrote |-> body.wrote]

\* Mutant: the filter keeps the entry it should drop.
RemoveTryKeeps(st, rf, wf, path) ==
  LET loaded   == loadProjectHistory(st, rf)
      filtered == SelectSeq(loaded.value, LAMBDA item : item.path = path)
      put      == setItem(st, wf, Stringified(filtered))
  IN  [stored |-> put.stored, threw |-> put.threw, read |-> TRUE,
       wrote |-> ~put.threw]

RemoveTry(st, rf, wf, path) ==
  LET loaded   == loadProjectHistory(st, rf)
      filtered == Without(loaded.value, path)
      put      == setItem(st, wf, Stringified(filtered))
  IN  IF loaded.raised
      THEN [stored |-> st, threw |-> TRUE, read |-> TRUE, wrote |-> FALSE]
      ELSE [stored |-> put.stored, threw |-> put.threw, read |-> TRUE,
            wrote |-> ~put.threw]

\* Mutant: no catch around the write.
RemoveNoCatch(st, rf, wf, path) ==
  LET body == RemoveTry(st, rf, wf, path)
  IN  [stored |-> body.stored, raised |-> body.threw, read |-> body.read,
       wrote |-> body.wrote]

removeProjectFromHistory(st, rf, wf, path) ==
  LET body == RemoveTry(st, rf, wf, path)
  IN  [stored |-> body.stored, raised |-> FALSE, read |-> body.read,
       wrote |-> body.wrote]

ClearTry(st, wf) ==
  LET del == removeItem(st, wf)
  IN  [stored |-> del.stored, threw |-> del.threw, read |-> FALSE,
       wrote |-> ~del.threw]

\* Mutant: the removal names another key.
ClearOtherKey(st, wf) ==
  [stored |-> st, raised |-> FALSE, read |-> FALSE, wrote |-> ~wf]

clearProjectHistory(st, wf) ==
  LET body == ClearTry(st, wf)
  IN  [stored |-> body.stored, raised |-> FALSE, read |-> body.read,
       wrote |-> body.wrote]

\* Mutant: the last entry instead of the first.
MostRecentLast(st, rf) ==
  LET loaded == loadProjectHistory(st, rf)
  IN  [raised |-> loaded.raised,
       value  |-> IF Len(loaded.value) > 0
                  THEN <<loaded.value[Len(loaded.value)].path>> ELSE <<>>]

\* getMostRecentProject: <<>> stands for null, <<p>> for the path p.  It has
\* no try/catch of its own: a throw of loadProjectHistory would pass through.
getMostRecentProject(st, rf) ==
  LET loaded == loadProjectHistory(st, rf)
  IN  [raised |-> loaded.raised,
       value  |-> IF Len(loaded.value) > 0 THEN <<loaded.value[1].path>> ELSE <<>>]

(***************************************************************************)
(* The state machine.  lastOp records the last call: its argument, the     *)
(* time it read, what load() returned before it (had: the path was in the  *)
(* history, len: the number of entries) and what the call did.  extra      *)
(* counts the steps that are charged to the budget of the specification.   *)
(*                                                                         *)
(* The store compares paths only for equality, so the paths that are not   *)
(* in the history are interchangeable.  Paths are numbered in the order of *)
(* their first save (nextFresh is the next number), a save names a path of *)
(* the history or the next new path, and a remove names a path of the      *)
(* history or the first path that is not in it (AbsentIndex).              *)
(***************************************************************************)
\* What load() returns in the current state.
Loaded == loadProjectHistory(stored, readFails).value

InLoaded(path) == \E k \in 1..Len(Loaded) : Loaded[k].path = path

Op(name, path, res) ==
  [op |-> name, path |-> path, t |-> now, had |-> InLoaded(path),
   len |-> Len(Loaded), raised |-> res.raised, read |-> res.read,
   wrote |-> res.wrote]

\* The event handlers that call the store, and the call of a handler that is
\* not inside save or remove.
Callers == 1..NumCallers

Idle == [op |-> "idle", path |-> <<>>, t |-> 0, seen |-> Absent, pending |-> <<>>]

\* formatDate has not been called.
NotFormatted == [text |-> "", n |-> 0]

\* The store before its first call; the component mounted with its dropdown
\* closed (the effect of the mount finds isOpen false and does nothing).
InitOthers ==
  /\ call = [c \in Callers |-> Idle]
  /\ isOpen = FALSE
  /\ historyShown = <<>>
  /\ filter = <<>>
  /\ effectPending = FALSE
  /\ timestamp = 0
  /\ dateText = NotFormatted

Init ==
  /\ stored = Absent
  /\ now \in Times
  /\ readFails = FALSE
  /\ writeFails = FALSE
  /\ lastOp = [op |-> "init", path |-> <<>>, t |-> 0, had |-> FALSE, len |-> 0,
               raised |-> FALSE, read |-> FALSE, wrote |-> FALSE]
  /\ nextFresh = 1
  /\ extra = 0
  /\ InitOthers

InStore(path) == \E k \in 1..Len(stored.items) : stored.items[k].path = path

PresentIndex == {i \in 1..(nextFresh - 1) : InStore(PathOf(i))}

AbsentIndex ==
  {CHOOSE i \in 1..nextFresh : i \notin PresentIndex /\ \A j \in 1..(i - 1) : j \in PresentIndex}

FreshIndex(paths) == IF nextFresh <= paths THEN {nextFresh} ELSE {}

Charge(budget) == extra < budget /\ extra' = extra + 1

\* saveProjectToHistory(PathOf(i)) at the time the clock shows.
Save(i, budget) ==
  LET res == saveProjectToHistory(stored, readFails, writeFails, now, PathOf(i))
  IN  /\ IF i = nextFresh
         THEN nextFresh' = nextFresh + 1 /\ extra' = extra
         ELSE nextFresh' = nextFresh /\ Charge(budget)
      /\ stored' = res.stored
      /\ lastOp' = Op("save", PathOf(i), res)
      /\ UNCHANGED <<now, readFails, writeFails>>
      /\ UNCHANGED <<callVars, selectorVars, formatVars>>

\* saveProjectToHistory with an empty or whitespace-only path.
SaveBlank(path, budget) ==
  LET res == saveProjectToHistory(stored, readFails, writeFails, now, path)
  IN  /\ Charge(budget)
      /\ stored' = res.stored
      /\ lastOp' = Op("save", path, res)
      /\ UNCHANGED <<now, readFails, writeFails, nextFresh>>
      /\ UNCHANGED <<callVars, selectorVars, formatVars>>

Remove(i, budget) ==
  LET res == removeProjectFromHistory(stored, readFails, writeFails, PathOf(i))
  IN  /\ Charge(budget)
      /\ stored' = res.stored
      /\ lastOp' = Op("remove", PathOf(i), res)
      /\ UNCHANGED <<now, readFails, writeFails, nextFresh>>
      /\ UNCHANGED <<callVars, selectorVars, formatVars>>

Clear(budget) ==
  LET res == clearProjectHistory(stored, writeFails)
  IN  /\ Charge(budget)
      /\ stored' = res.stored
      /\ lastOp' = Op("clear", <<>>, res)
      /\ UNCHANGED <<now, readFails, writeFails, nextFresh>>
      /\ UNCHANGED <<callVars, selectorVars, formatVars>>

\* The wall clock moves: forward, or back when the system time is corrected.
ClockSet(t, budget) ==
  /\ t # now
  /\ Charge(budget)
  /\ now' = t
  /\ UNCHANGED <<stored, readFails, writeFails, lastOp, nextFresh>>
  /\ UNCHANGED <<callVars, selectorVars, formatVars>>

\* The storage starts or stops throwing on reads, on writes or on both
\* (storage disabled, quota exceeded).
StorageFault(rf, wf, budget) ==
  /\ <<rf, wf>> # <<readFails, writeFails>>
  /\ Charge(budget)
  /\ readFails' = rf
  /\ writeFails' = wf
  /\ UNCHANGED <<stored, now, lastOp, nextFresh>>
  /\ UNCHANGED <<callVars, selectorVars, formatVars>>

\* Something else leaves a string under the key that is no array of entries.
Corrupt(kind, budget) ==
  /\ Charge(budget)
  /\ stored' = [kind |-> kind, items |-> <<>>]
  /\ UNCHANGED <<now, readFails, writeFails, lastOp, nextFresh>>
  /\ UNCHANGED <<callVars, selectorVars, formatVars>>

StoreNext(paths, budget) ==
  \/ \E i \in PresentIndex \cup FreshIndex(paths) : Save(i, budget)
  \/ \E path \in BlankPaths : SaveBlank(path, budget)
  \/ \E i \in PresentIndex \cup AbsentIndex : Remove(i, budget)
  \/ Clear(budget)
  \/ \E t \in Times : ClockSet(t, budget)

\* Spec: few paths, many steps; the storage works.
Next == StoreNext(NumPaths, MaxExtra)

Spec == Init /\ [][Next]_vars

\* SpecFull: enough paths to fill the history, few other steps.
NextFull == StoreNext(NumFullPaths, MaxFullExtra)

SpecFull == Init /\ [][NextFull]_vars

\* SpecFault: Spec with a storage that may fail and a key that may be
\* overwritten.
NextFault ==
  \/ StoreNext(NumPaths, MaxFaultExtra)
  \/ \E rf \in BOOLEAN, wf \in BOOLEAN : StorageFault(rf, wf, MaxFaultExtra)
  \/ \E kind \in {"empty", "malformed", "nonarray"} : Corrupt(kind, MaxFaultExtra)

SpecFault == Init /\ [][NextFault]_vars

(***************************************************************************)
(* SpecCalls: save and remove in the two steps of their try block, the     *)
(* read of the storage with the computation of the new array, and the      *)
(* write.  The functions are synchronous (no await and no callback between *)
(* their first and their last statement), so the thread of the event       *)
(* handlers enters a function only when no call is in progress.            *)
(***************************************************************************)
\* Mutant: a suspension point between the read and the write.
EnterAnytime(calls) == TRUE

RunToCompletion(calls) == \A c \in Callers : calls[c].op = "idle"

\* Lines 49 to 59: the array save writes, from the array it loaded.
SaveModify(loaded, t, path) ==
  Slice(Unshift(Without(loaded, path),
                [path |-> path, lastUsed |-> t, name |-> getProjectName(path)]),
        MAX_HISTORY_ITEMS)

\* Line 73: the array remove writes.
RemoveModify(loaded, path) == Without(loaded, path)

\* Line 46 to line 59 of saveProjectToHistory(PathOf(i)), called by c.
SaveRead(c, i, budget) ==
  /\ call[c].op = "idle"
  /\ RunToCompletion(call)
  /\ IF i = nextFresh
     THEN nextFresh' = nextFresh + 1 /\ extra' = extra
     ELSE nextFresh' = nextFresh /\ Charge(budget)
  /\ call' = [call EXCEPT ![c] =
       [op |-> "save", path |-> PathOf(i), t |-> now, seen |-> stored,
        pending |-> SaveModify(loadProjectHistory(stored, readFails).value,
                               now, PathOf(i))]]
  /\ UNCHANGED <<stored, now, readFails, writeFails, lastOp>>
  /\ UNCHANGED <<selectorVars, formatVars>>

\* Lines 72 and 73 of removeProjectFromHistory(PathOf(i)), called by c.
RemoveRead(c, i, budget) ==
  /\ call[c].op = "idle"
  /\ RunToCompletion(call)
  /\ Charge(budget)
  /\ call' = [call EXCEPT ![c] =
       [op |-> "remove", path |-> PathOf(i), t |-> now, seen |-> stored,
        pending |-> RemoveModify(loadProjectHistory(stored, readFails).value,
                                 PathOf(i))]]
  /\ UNCHANGED <<stored, now, readFails, writeFails, lastOp, nextFresh>>
  /\ UNCHANGED <<selectorVars, formatVars>>

\* Line 61 and line 74: the setItem of the call of c.
CallWrite(c) ==
  /\ call[c].op # "idle"
  /\ LET put  == setItem(stored, writeFails, Stringified(call[c].pending))
         read == loadProjectHistory(call[c].seen, readFails).value
     IN  /\ stored' = put.stored
         /\ lastOp' = [op |-> call[c].op, path |-> call[c].path, t |-> call[c].t,
                       had |-> call[c].path \in {read[k].path : k \in 1..Len(read)},
                       len |-> Len(read), raised |-> FALSE, read |-> TRUE,
                       wrote |-> ~put.threw]
  /\ call' = [call EXCEPT ![c] = Idle]
  /\ UNCHANGED <<now, readFails, writeFails, nextFresh, extra>>
  /\ UNCHANGED <<selectorVars, formatVars>>

\* clearProjectHistory is one storage call.
ClearCall(budget) == RunToCompletion(call) /\ Clear(budget)

NextCalls ==
  \/ \E c \in Callers, i \in PresentIndex \cup FreshIndex(NumPaths) :
       SaveRead(c, i, MaxCallExtra)
  \/ \E c \in Callers, i \in PresentIndex \cup AbsentIndex :
       RemoveRead(c, i, MaxCallExtra)
  \/ \E c \in Callers : CallWrite(c)
  \/ ClearCall(MaxCallExtra)
  \/ \E t \in Times : ClockSet(t, MaxCallExtra)

SpecCalls == Init /\ [][NextCalls]_vars

(***************************************************************************)
(* SpecNames: saves of paths of every shape, for the names of the entries. *)
(***************************************************************************)
SaveNamed(path, budget) ==
  LET res == saveProjectToHistory(stored, readFails, writeFails, now, path)
  IN  /\ Charge(budget)
      /\ stored' = res.stored
      /\ lastOp' = Op("save", path, res)
      /\ UNCHANGED <<now, readFails, writeFails, nextFresh>>
      /\ UNCHANGED <<callVars, selectorVars, formatVars>>

NextNames ==
  \/ \E path \in NamePaths : SaveNamed(path, MaxNameExtra)
  \/ \E t \in Times : ClockSet(t, MaxNameExtra)

SpecNames == Init /\ [][NextNames]_vars

(***************************************************************************)
(* SpecSelector: the ProjectPathSelector component over the store.  Each   *)
(* event handler is one action.  A change of isOpen makes React render and *)
(* then run the effect that depends on isOpen (effectPending); React runs  *)
(* a pending effect before it dispatches the next event, so no handler     *)
(* runs in between.  The rest of the application saves paths to the store  *)
(* (this is how the history gets its entries: the component saves only     *)
(* paths it lists), here only while the dropdown is closed.                *)
(***************************************************************************)
UpperLetters ==
  <<"A", "B", "C", "D", "E", "F", "G", "H", "I", "J", "K", "L", "M",
    "N", "O", "P", "Q", "R", "S", "T", "U", "V", "W", "X", "Y", "Z">>

\* String.prototype.toLowerCase
toLowerCase(s) ==
  [k \in 1..Len(s) |->
     IF \E u \in 1..Len(UpperLetters) : UpperLetters[u] = s[k]
     THEN Letters[CHOOSE u \in 1..Len(UpperLetters) : UpperLetters[u] = s[k]]
     ELSE s[k]]

\* String.prototype.includes
includes(s, sub) ==
  \E k \in 0..(Len(s) - Len(sub)) : SubSeq(s, k + 1, k + Len(sub)) = sub

\* Lines 66 to 69: the items the dropdown lists.
filteredHistory(shown, flt) ==
  SelectSeq(shown, LAMBDA item :
    \/ includes(toLowerCase(item.path), toLowerCase(flt))
    \/ includes(toLowerCase(item.name), toLowerCase(flt)))

\* What the user types into the search field.
Filters == {<<"U">>, <<"/", "w">>, <<"z">>, <<>>}

\* The paths of the listed items: those the user can click.
Listed ==
  LET items == filteredHistory(historyShown, filter)
  IN  {items[k].path : k \in 1..Len(items)}

\* handleSelect(path), lines 72 to 74: the content of the key and isOpen
\* afterwards (onChange belongs to the parent).
handleSelect(st, rf, wf, t, path) ==
  LET res == saveProjectToHistory(st, rf, wf, t, path)
  IN  [res |-> res, isOpen |-> FALSE]

\* Mutant: the list is not loaded again after the removal.
HandleRemoveNoReload(st, rf, wf, shown, path) ==
  LET res == removeProjectFromHistory(st, rf, wf, path)
  IN  [res |-> res, history |-> shown]

\* handleRemove(e, path), lines 78 to 80: the content of the key and the
\* state variable history afterwards.
handleRemove(st, rf, wf, shown, path) ==
  LET res == removeProjectFromHistory(st, rf, wf, path)
  IN  [res |-> res, history |-> loadProjectHistory(res.stored, rf).value]

\* onFocus of the input (line 137), or the button while closed (line 143).
Open(budget) ==
  /\ ~effectPending
  /\ ~isOpen
  /\ Charge(budget)
  /\ isOpen' = TRUE
  /\ effectPending' = TRUE
  /\ UNCHANGED <<stored, now, readFails, writeFails, lastOp, nextFresh>>
  /\ UNCHANGED <<historyShown, filter, callVars, formatVars>>

\* The button while open (line 143), or a mouse press outside (line 55).
Close(budget) ==
  /\ ~effectPending
  /\ isOpen
  /\ Charge(budget)
  /\ isOpen' = FALSE
  /\ effectPending' = TRUE
  /\ UNCHANGED <<stored, now, readFails, writeFails, lastOp, nextFresh>>
  /\ UNCHANGED <<historyShown, filter, callVars, formatVars>>

\* The effect on isOpen, lines 44 to 49.
OpenEffect ==
  /\ effectPending
  /\ effectPending' = FALSE
  /\ IF isOpen
     THEN /\ historyShown' = loadProjectHistory(stored, readFails).value
          /\ filter' = <<>>
     ELSE UNCHANGED <<historyShown, filter>>
  /\ UNCHANGED <<stored, now, readFails, writeFails, lastOp, nextFresh, extra>>
  /\ UNCHANGED <<isOpen, callVars, formatVars>>

\* onChange of the search field, line 179 (rendered when the dropdown is
\* open and history is not empty, line 173).
TypeFilter(flt, budget) ==
  /\ ~effectPending
  /\ isOpen
  /\ Len(historyShown) > 0
  /\ flt # filter
  /\ Charge(budget)
  /\ filter' = flt
  /\ UNCHANGED <<stored, now, readFails, writeFails, lastOp, nextFresh>>
  /\ UNCHANGED <<isOpen, historyShown, effectPending, callVars, formatVars>>

\* A click on a listed item, line 197.
ClickItem(path, budget) ==
  LET after == handleSelect(stored, readFails, writeFails, now, path)
  IN  /\ ~effectPending
      /\ isOpen
      /\ path \in Listed
      /\ Charge(budget)
      /\ stored' = after.res.stored
      /\ lastOp' = Op("handleSelect", path, after.res)
      /\ isOpen' = after.isOpen
      /\ effectPending' = TRUE
      /\ UNCHANGED <<now, readFails, writeFails, nextFresh>>
      /\ UNCHANGED <<historyShown, filter, callVars, formatVars>>

\* A click on the X of a listed item, line 214.
ClickRemove(path, budget) ==
  LET after == handleRemove(stored, readFails, writeFails, historyShown, path)
  IN  /\ ~effectPending
      /\ isOpen
      /\ path \in Listed
      /\ Charge(budget)
      /\ stored' = after.res.stored
      /\ lastOp' = Op("handleRemove", path, after.res)
      /\ historyShown' = after.history
      /\ UNCHANGED <<now, readFails, writeFails, nextFresh>>
      /\ UNCHANGED <<isOpen, filter, effectPending, callVars, formatVars>>

\* The application saves a path while the dropdown is closed.
SaveOutside(i, budget) == ~isOpen /\ ~effectPending /\ Save(i, budget)

NextSelector ==
  \/ Open(MaxSelectorExtra)
  \/ Close(MaxSelectorExtra)
  \/ OpenEffect
  \/ \E flt \in Filters : TypeFilter(flt, MaxSelectorExtra)
  \/ \E i \in 1..(nextFresh - 1) : ClickItem(PathOf(i), MaxSelectorExtra)
  \/ \E i \in 1..(nextFresh - 1) : ClickRemove(PathOf(i), MaxSelectorExtra)
  \/ \E i \in PresentIndex \cup FreshIndex(NumPaths) :
       SaveOutside(i, MaxSelectorExtra)
  \/ \E t \in Times : ClockSet(t, MaxSelectorExtra)

SpecSelector == Init /\ [][NextSelector]_vars

(***************************************************************************)
(* SpecFormat: formatDate of the component, a function of its argument and *)
(* of the clock.  Its result is the kind of text with the number in it:    *)
(* "just now", n "m ago", n "h ago", n "d ago", or the date of the         *)
(* timestamp (toLocaleDateString: the calendar day, here the day number in *)
(* UTC; the locale's notation is not modelled).                            *)
(***************************************************************************)
JustNow == [text |-> "just now", n |-> 0]

\* Mutant: the thresholds as inclusive upper bounds.
FormatDateInclusive(ts, clock) ==
  LET diff == clock - ts
  IN  IF diff <= Minute THEN JustNow
      ELSE IF diff <= Hour THEN [text |-> "m ago", n |-> diff \div Minute]
      ELSE IF diff <= Day THEN [text |-> "h ago", n |-> diff \div Hour]
      ELSE IF diff <= Week THEN [text |-> "d ago", n |-> diff \div Day]
      ELSE [text |-> "date", n |-> ts \div Day]

formatDate(ts, clock) ==
  LET diff == clock - ts
  IN  IF diff < Minute THEN JustNow
      ELSE IF diff < Hour THEN [text |-> "m ago", n |-> diff \div Minute]
      ELSE IF diff < Day THEN [text |-> "h ago", n |-> diff \div Hour]
      ELSE IF diff < Week THEN [text |-> "d ago", n |-> diff \div Day]
      ELSE [text |-> "date", n |-> ts \div Day]

\* The timestamps formatDate gets, and the ages they have when it is called:
\* each threshold, the millisecond before it, and values in between; -1 is a
\* timestamp ahead of a clock that was set back.
Stamps == 0..MaxStamp

Ages ==
  {-1, 0, 30000, Minute - 1, Minute, Minute + 1, 2 * Minute - 1, 5 * Minute,
   Hour - 1, Hour, 2 * Hour, Day - 1, Day, 3 * Day, Week - 1, Week, 10 * Day}

FormatTimes == {ts + age : ts \in Stamps, age \in Ages}

InitFormat ==
  /\ stored = Absent
  /\ now \in FormatTimes
  /\ readFails = FALSE
  /\ writeFails = FALSE
  /\ lastOp = [op |-> "init", path |-> <<>>, t |-> 0, had |-> FALSE, len |-> 0,
               raised |-> FALSE, read |-> FALSE, wrote |-> FALSE]
  /\ nextFresh = 1
  /\ extra = 0
  /\ InitOthers

\* formatDate(ts), called when an item is rendered.
FormatDate(ts) ==
  /\ timestamp' = ts
  /\ dateText' = formatDate(ts, now)
  /\ lastOp' = [op |-> "formatDate", path |-> <<>>, t |-> now, had |-> FALSE,
                len |-> 0, raised |-> FALSE, read |-> FALSE, wrote |-> FALSE]
  /\ UNCHANGED <<stored, now, readFails, writeFails, nextFresh, extra>>
  /\ UNCHANGED <<callVars, selectorVars>>

\* Time passes, or the clock is set, between two renderings.
ClockAt(t) ==
  /\ t # now
  /\ now' = t
  /\ UNCHANGED <<stored, readFails, writeFails, lastOp, nextFresh, extra>>
  /\ UNCHANGED <<callVars, selectorVars, formatVars>>

NextFormat ==
  \/ \E ts \in Stamps : FormatDate(ts)
  \/ \E t \in FormatTimes : ClockAt(t)

SpecFormat == InitFormat /\ [][NextFormat]_vars

(***************************************************************************)
(* Properties.                                                             *)
(***************************************************************************)
\* What mostRecent() returns in the current state.
MostRecent == getMostRecentProject(stored, readFails).value

PathsOf(history) == {history[k].path : k \in 1..Len(history)}

EntriesFor(history, path) == {k \in 1..Len(history) : history[k].path = path}

\* A step that is a call of save with a path that is not blank.
SaveStep(paths, budget) ==
  \E i \in PresentIndex \cup FreshIndex(paths) : Save(i, budget)

\* C1: starting from an empty store, after any sequence of save, remove and
\* clear the persisted history holds at most 10 entries.
C1_AtMostTen ==
  /\ Len(stored.items) <= MAX_HISTORY_ITEMS
  /\ Len(Loaded) <= MAX_HISTORY_ITEMS

\* A new path has been saved into a history of 10 entries.
C1_Witness ==
  /\ lastOp.op = "save" /\ lastOp.wrote
  /\ lastOp.len = MAX_HISTORY_ITEMS /\ ~lastOp.had

\* C2: starting from an empty store, no two persisted entries have the same
\* path; saving a path that is already present creates no second entry.
C2_UniquePaths ==
  \A j, k \in 1..Len(stored.items) :
    stored.items[j].path = stored.items[k].path => j = k

\* A path of a history of several entries has been saved again.
C2_Witness ==
  /\ lastOp.op = "save" /\ lastOp.wrote
  /\ lastOp.had /\ lastOp.len >= 2

\* C3 as stated: after the second save of a path there is exactly one entry
\* for it, its lastUsed is the time of that save, and it is the first entry
\* load() returns.
C3_Original ==
  (lastOp.op = "save" /\ lastOp.had) =>
    /\ Cardinality(EntriesFor(Loaded, lastOp.path)) = 1
    /\ Loaded[1].path = lastOp.path
    /\ Loaded[1].lastUsed = lastOp.t

\* C3 as amended: after the second save of a path there is exactly one entry
\* for it and its lastUsed is the time of that save; it is the first entry
\* load() returns when no other entry has a lastUsed greater than that time.
C3_SavedAgain ==
  (lastOp.op = "save" /\ lastOp.had) =>
    /\ Cardinality(EntriesFor(Loaded, lastOp.path)) = 1
    /\ \A k \in EntriesFor(Loaded, lastOp.path) : Loaded[k].lastUsed = lastOp.t
    /\ (\A k \in 1..Len(Loaded) : Loaded[k].lastUsed <= lastOp.t)
         => Loaded[1].path = lastOp.path

\* A path has been saved again at the very time another entry carries, and
\* load() returns it first.
C3_Witness ==
  /\ lastOp.op = "save" /\ lastOp.had
  /\ Len(Loaded) >= 2
  /\ Loaded[1].path = lastOp.path
  /\ Loaded[2].lastUsed = lastOp.t

\* C4: when the history holds 10 entries and a path not among them is saved,
\* it holds exactly 10 afterwards, the new path is among them, and the one
\* entry dropped had the smallest lastUsed of the original 10.
C4_EvictsOldest ==
  [][\A i \in FreshIndex(NumFullPaths), before \in {Loaded}, after \in {Loaded'} :
       (Len(before) = MAX_HISTORY_ITEMS /\ Save(i, MaxFullExtra)) =>
         \A dropped \in {{k \in 1..Len(before) : before[k].path \notin PathsOf(after)}} :
           /\ Len(after) = MAX_HISTORY_ITEMS
           /\ PathOf(i) \in PathsOf(after)
           /\ Cardinality(dropped) = 1
           /\ \A k \in dropped : \A j \in 1..Len(before) :
                before[k].lastUsed <= before[j].lastUsed]_vars

\* A new path has been saved into a history of 10 entries whose lastUsed
\* values differ.
C4_Witness ==
  /\ lastOp.op = "save" /\ lastOp.wrote
  /\ lastOp.len = MAX_HISTORY_ITEMS /\ ~lastOp.had
  /\ \E j, k \in 1..Len(Loaded) : Loaded[j].lastUsed # Loaded[k].lastUsed

\* C5: after remove(p), load() returns no entry whose path is p; and when p
\* was not in the history, load() returns the same sequence as before.
C5_Remove ==
  [][\A i \in PresentIndex \cup AbsentIndex :
       Remove(i, MaxExtra) =>
         /\ PathOf(i) \notin PathsOf(Loaded')
         /\ PathOf(i) \notin PathsOf(Loaded) => Loaded' = Loaded]_vars

\* A path that is not in a history of several entries has been removed.
C5_Witness ==
  /\ lastOp.op = "remove" /\ lastOp.wrote
  /\ ~lastOp.had /\ lastOp.len >= 2
  /\ Len(Loaded) >= 2

\* C6: in every reachable state load() returns the entries ordered by
\* lastUsed descending, whatever order the storage holds them in.
C6_LoadSorted ==
  \A j, k \in 1..Len(Loaded) : j < k => Loaded[j].lastUsed >= Loaded[k].lastUsed

\* The storage holds entries that are not in descending order of lastUsed.
C6_Witness ==
  \E j, k \in 1..Len(stored.items) :
    j < k /\ stored.items[j].lastUsed < stored.items[k].lastUsed

\* C7: load() does not raise, and returns the empty sequence when nothing is
\* stored under the key, when the content does not parse and when reading
\* the storage fails.
C7_LoadNeverRaises ==
  LET result == loadProjectHistory(stored, readFails)
  IN  /\ ~result.raised
      /\ (readFails \/ stored.kind \in {"absent", "empty", "malformed", "nonarray"})
           => result.value = <<>>

\* The key holds a string that does not parse.
C7_Witness == stored.kind = "malformed" /\ ~readFails

\* C8: when the storage write of save, remove or clear fails, the call does
\* not raise and the persisted content is left as it was, so a load() that
\* can read returns what it returned before.
C8_FailedWriteIsLost ==
  [][(/\ writeFails
      /\ \/ SaveStep(NumPaths, MaxFaultExtra)
         \/ \E path \in BlankPaths : SaveBlank(path, MaxFaultExtra)
         \/ \E i \in PresentIndex \cup AbsentIndex : Remove(i, MaxFaultExtra)
         \/ Clear(MaxFaultExtra))
     => /\ ~lastOp'.raised
        /\ ~lastOp'.wrote
        /\ stored' = stored
        /\ loadProjectHistory(stored', FALSE) = loadProjectHistory(stored, FALSE)]_vars

\* The removal of a path of the history has failed to write, and the path
\* is still there.
C8_Witness ==
  /\ writeFails /\ ~readFails
  /\ lastOp.op = "remove" /\ lastOp.had /\ ~lastOp.wrote
  /\ lastOp.path \in PathsOf(Loaded)

\* C9: mostRecent() returns the path of the first entry of load(), or
\* nothing when the history is empty: once A has been saved and is the most
\* recent, saving B at a later time makes it return B, and removing the
\* most recent path B makes it return the path that came next (A).
C9_MostRecent ==
  /\ [](MostRecent = IF Loaded = <<>> THEN <<>> ELSE <<Loaded[1].path>>)
  /\ [][\A i \in PresentIndex \cup FreshIndex(NumPaths) :
          (/\ Save(i, MaxExtra)
           /\ lastOp.op = "save" /\ lastOp.wrote
           /\ MostRecent = <<lastOp.path>>
           /\ PathOf(i) # lastOp.path
           /\ now > lastOp.t)
          => MostRecent' = <<PathOf(i)>>]_vars
  /\ [][\A i \in PresentIndex \cup AbsentIndex :
          (Remove(i, MaxExtra) /\ MostRecent = <<PathOf(i)>>)
          => MostRecent' = IF Len(Loaded) >= 2 THEN <<Loaded[2].path>> ELSE <<>>]_vars

\* A and then B have been saved into an empty history, B at a later time,
\* and mostRecent() returns B.
C9_Witness ==
  /\ lastOp.op = "save" /\ lastOp.wrote /\ ~lastOp.had /\ lastOp.len = 1
  /\ Len(Loaded) = 2
  /\ Loaded[1].lastUsed > Loaded[2].lastUsed
  /\ MostRecent = <<lastOp.path>>

\* C10: after clear(), whatever the history held, load() returns the empty
\* sequence and mostRecent() returns nothing, and they keep doing so through
\* every step that is not a save.
C10_ClearEmpties ==
  [][/\ Clear(MaxExtra) => (Loaded' = <<>> /\ MostRecent' = <<>>)
     /\ (Loaded = <<>> /\ MostRecent = <<>> /\ ~SaveStep(NumPaths, MaxExtra))
          => (Loaded' = <<>> /\ MostRecent' = <<>>)]_vars

\* A history of several entries has been cleared.
C10_Witness ==
  /\ lastOp.op = "clear" /\ lastOp.wrote
  /\ lastOp.len >= 2

\* C11: save with a path that is empty or consists only of whitespace is a
\* no-op: the content of the key is unchanged and the call neither reads nor
\* writes the storage (nor raises), whether the storage works or throws.
C11_BlankSaveIsNoOp ==
  [][\A path \in BlankPaths :
       SaveBlank(path, MaxFaultExtra) =>
         /\ stored' = stored
         /\ ~lastOp'.read /\ ~lastOp'.wrote /\ ~lastOp'.raised]_vars

\* A whitespace-only path has been saved while the history held entries.
C11_Witness ==
  /\ lastOp.op = "save" /\ lastOp.path = <<" ", "\t">>
  /\ lastOp.len >= 1 /\ Len(stored.items) >= 1
  /\ ~lastOp.read /\ ~lastOp.wrote

\* C12: every call observes the full effect of the call before it.  While a
\* save or a remove is between its read and its write no other call is in
\* progress and the key still holds what the call read, and its write leaves
\* what the whole function computes from the content the key holds then: no
\* write falls in between, no update is lost and none is read stale.
C12_AtomicReadModifyWrite ==
  /\ [](\A c \in Callers :
          call[c].op # "idle" =>
            /\ call[c].seen = stored
            /\ \A d \in Callers \ {c} : call[d].op = "idle")
  /\ [][\A c \in Callers :
          CallWrite(c) =>
            stored' =
              IF call[c].op = "save"
              THEN saveProjectToHistory(stored, readFails, writeFails,
                                        call[c].t, call[c].path).stored
              ELSE removeProjectFromHistory(stored, readFails, writeFails,
                                            call[c].path).stored]_vars

\* The second handler is inside a remove that has read the two entries the
\* saves before it wrote.
C12_Witness ==
  /\ call[2].op = "remove"
  /\ lastOp.op = "save" /\ lastOp.wrote
  /\ call[2].seen = stored /\ Len(call[2].seen.items) >= 2
  /\ Len(call[2].pending) = 1

\* The separator of the platform a path is native to: the backslash for a
\* path that starts with a drive letter and a colon, the slash otherwise.
NativeSeparator(path) ==
  IF Len(path) >= 2 /\ path[2] = ":" THEN "\\" ELSE "/"

\* The segments of s between the occurrences of sep.
RECURSIVE SegmentsOf(_, _, _)
SegmentsOf(s, sep, cur) ==
  IF s = <<>> THEN <<cur>>
  ELSE IF Head(s) = sep THEN <<cur>> \o SegmentsOf(Tail(s), sep, <<>>)
  ELSE SegmentsOf(Tail(s), sep, Append(cur, Head(s)))

\* The name C13 states: the last non-empty segment, or the fallback label.
LastSegmentName(path) ==
  LET parts == SelectSeq(SegmentsOf(path, NativeSeparator(path), <<>>),
                         LAMBDA x : x # <<>>)
  IN  IF parts = <<>> THEN UNKNOWN_PROJECT ELSE parts[Len(parts)]

\* C13 as stated: every entry save creates has as its name the last
\* non-empty segment of its path after splitting on the path separator
\* (paths have platform-native separators), or "Unknown Project" when the
\* path has no non-empty segment.
C13_Original ==
  \A k \in 1..Len(stored.items) :
    stored.items[k].name = LastSegmentName(stored.items[k].path)

\* The Windows path has been saved, and the name of its entry is the whole
\* path; the entries of the slash-separated paths carry the name C13 states.
C13_Witness ==
  /\ lastOp.op = "save" /\ lastOp.wrote /\ lastOp.path = WindowsPath
  /\ \E k \in 1..Len(stored.items) :
       /\ stored.items[k].path = WindowsPath
       /\ stored.items[k].name = WindowsPath
  /\ \E k \in 1..Len(stored.items) :
       /\ stored.items[k].path = PathOf(1)
       /\ stored.items[k].name = UNKNOWN_PROJECT
  /\ \A k \in 1..Len(stored.items) :
       stored.items[k].path # WindowsPath =>
         stored.items[k].name = LastSegmentName(stored.items[k].path)

\* C14: formatDate of a timestamp of age d = now - timestamp milliseconds
\* yields "just now" when d < 60000, floor(d/60000) "m ago" when
\* 60000 <= d < 3600000, floor(d/3600000) "h ago" when
\* 3600000 <= d < 86400000, floor(d/86400000) "d ago" when
\* 86400000 <= d < 604800000, and a date otherwise: each threshold is an
\* exclusive upper bound.
C14_RelativeTime ==
  lastOp.op = "formatDate" =>
    LET d == lastOp.t - timestamp
    IN  /\ d < 60000 => dateText.text = "just now"
        /\ (60000 <= d /\ d < 3600000) =>
             dateText = [text |-> "m ago", n |-> d \div 60000]
        /\ (3600000 <= d /\ d < 86400000) =>
             dateText = [text |-> "h ago", n |-> d \div 3600000]
        /\ (86400000 <= d /\ d < 604800000) =>
             dateText = [text |-> "d ago", n |-> d \div 86400000]
        /\ 604800000 <= d => dateText.text = "date"

\* formatDate has been called with a timestamp that is exactly one hour
\* old: it is "1h ago", no longer "60m ago".
C14_Witness ==
  /\ lastOp.op = "formatDate"
  /\ lastOp.t - timestamp = Hour
  /\ dateText = [text |-> "h ago", n |-> 1]

\* C15: if path p is not in the history and the history holds fewer than 10
\* entries, then save(p) immediately followed by remove(p) leaves load()
\* returning the same sequence as before the save: at every such save, what
\* remove(p) makes of the content the save leaves loads as before.
C15_SaveThenRemove ==
  [][\A i \in FreshIndex(NumFullPaths), before \in {Loaded}, saved \in {stored'} :
       (Save(i, MaxFullExtra) /\ ~InLoaded(PathOf(i)) /\ Len(before) < MAX_HISTORY_ITEMS)
       => \A removed \in {removeProjectFromHistory(saved, readFails, writeFails,
                                                   PathOf(i)).stored} :
            loadProjectHistory(removed, readFails).value = before]_vars

\* The ninth path has been saved and removed at once (the removal is the
\* only step of the run that is not the first save of a path): the eight
\* entries are left.
C15_Witness ==
  /\ lastOp.op = "remove" /\ lastOp.had /\ lastOp.wrote
  /\ lastOp.path = PathOf(9) /\ nextFresh = 10 /\ extra = 1
  /\ lastOp.len = 9 /\ Len(Loaded) = 8

\* C16: with the store modified while the dropdown is open only through the
\* component's handlers, the history the open dropdown lists from (once the
\* effect of its opening has run) equals load() of the store, and it lists
\* all of it while the filter is empty: the effect of every opening reloads
\* the list and resets the filter to empty, removing an item reloads the
\* list after the removal, and selecting an item saves it and closes the
\* dropdown, so that the next opening reloads.
C16_ListIsLoad ==
  /\ []((isOpen /\ ~effectPending) =>
          /\ historyShown = Loaded
          /\ filter = <<>> => filteredHistory(historyShown, filter) = Loaded)
  /\ [][(OpenEffect /\ isOpen) => (historyShown' = Loaded' /\ filter' = <<>>)]_vars
  /\ [][\A i \in 1..(nextFresh - 1) :
          ClickRemove(PathOf(i), MaxSelectorExtra) =>
            /\ historyShown' = Loaded'
            /\ PathOf(i) \notin PathsOf(historyShown')
            /\ isOpen']_vars
  /\ [][\A i \in 1..(nextFresh - 1) :
          ClickItem(PathOf(i), MaxSelectorExtra) =>
            /\ ~isOpen' /\ effectPending'
            /\ \E k \in 1..Len(Loaded') :
                 Loaded'[k].path = PathOf(i) /\ Loaded'[k].lastUsed = now]_vars
  /\ [][(isOpen' /\ ~isOpen) => effectPending']_vars

\* The older of two items has been selected, which saved it and closed the
\* dropdown, and the dropdown has been opened again: it lists the history
\* in its new order, the selected item first.
C16_Witness ==
  /\ isOpen /\ ~effectPending
  /\ lastOp.op = "handleSelect" /\ lastOp.had /\ lastOp.wrote
  /\ Len(historyShown) = 2
  /\ historyShown[1].path = PathOf(1)
  /\ historyShown[2].path = PathOf(2)
  /\ filter = <<>>

====
